---- MODULE Spec2Model ----
(***************************************************************************)
(* usb-ids: the build script (build.rs) that parses the USB ID registry    *)
(* into two id-keyed maps, and the query API (src/lib.rs) that reads them. *)
(*                                                                         *)
(* A registry line is a sequence of one-character strings; the nom line    *)
(* matchers of `mod parser` are operators over such sequences.  Option<T>  *)
(* is a sequence of length at most one: None == <<>>, Some(x) == <<x>>.    *)
(*                                                                         *)
(* phf_codegen::Map is a sequence of (key, value) entries: entry() appends *)
(* one, build() panics on a duplicate key and otherwise yields the entries *)
(* in an order of the hash's choosing.                                     *)
(*                                                                         *)
(* Spec         the build, with the text it reads kept in input            *)
(* SpecQueries  the build without the text kept, then calls of the queries *)
(* SpecTwoRuns  the build, then a second build of the file the first read  *)
(***************************************************************************)
EXTENDS Integers, Sequences, FiniteSets, TLC

\* ------------------------------------------------------------------ bounds
\* the number of lines of a registry file whose text is kept
MaxLines == 4
\* the number of lines of a registry file whose text is not kept
MaxLinesUntracked == 5

\* --------------------------------------------------------------- Option<T>
None == <<>>
Some(x) == <<x>>
IsSome(o) == Len(o) = 1
IsNone(o) == Len(o) = 0
Unwrap(o) == o[1]

\* ------------------------------------------------------- the registry text
TAB == "\t"
SP == " "

V1 == <<"0", "0", "0", "1", SP, SP, "a">>
V2 == <<"0", "0", "0", "2", SP, SP, "b">>
D1 == <<TAB, "0", "0", "0", "1", SP, SP, "d">>
D2 == <<TAB, "0", "0", "1", "0", SP, SP, "e">>
I1 == <<TAB, TAB, "0", "1", SP, SP, "i">>
I2 == <<TAB, TAB, "0", "2", SP, SP, "j">>
C1L == <<"C", SP, "0", "1", SP, SP, "c">>
C2L == <<"C", SP, "0", "2", SP, SP, "k">>
S1 == <<TAB, "0", "1", SP, SP, "s">>
S2 == <<TAB, "0", "2", SP, SP, "t">>
ATL == <<"A", "T", SP, "0", "1", SP, SP, "x">>
BlankL == <<>>
CommentL == <<"#", SP, "x">>
U1 == <<"z", "z">>
U2 == <<"C", SP, "z">>

\* The lines a registry file of the model is made of.
Lines == {V1, V2, D1, D2, I1, I2, C1L, C2L, S1, S2, ATL, BlankL, CommentL, U1, U2}

\* -------------------------------------------------------------- str helpers
starts_with(line, prefix) ==
  /\ Len(line) >= Len(prefix)
  /\ SubSeq(line, 1, Len(prefix)) = prefix

is_empty(line) == Len(line) = 0

Drop(s, n) == SubSeq(s, n + 1, Len(s))

\* ------------------------------------------------------------- mod parser
\* A nom result is Option<[rest, id]>: None is Err, Some is Ok((rest, id)).
HexChars ==
  <<"0", "1", "2", "3", "4", "5", "6", "7", "8", "9",
    "a", "b", "c", "d", "e", "f", "A", "B", "C", "D", "E", "F">>

is_hex_digit(c) == \E i \in 1..Len(HexChars) : HexChars[i] = c

HexVal(c) ==
  LET i == CHOOSE k \in 1..Len(HexChars) : HexChars[k] = c
  IN  IF i <= 16 THEN i - 1 ELSE i - 7

RECURSIVE from_str_radix(_)
from_str_radix(s) ==
  IF Len(s) = 0 THEN 0
  ELSE 16 * from_str_radix(SubSeq(s, 1, Len(s) - 1)) + HexVal(s[Len(s)])

\* take(size), all_consuming(hex_digit1), from_str_radix(_, 16)
id(size, input) ==
  IF Len(input) < size THEN None
  ELSE IF size = 0 \/ \E i \in 1..size : ~is_hex_digit(input[i]) THEN None
  ELSE Some([rest |-> Drop(input, size),
             id |-> from_str_radix(SubSeq(input, 1, size))])

tag(t, input) ==
  IF starts_with(input, t) THEN Some([rest |-> Drop(input, Len(t))]) ELSE None

\* delimited(first, id(size), tag("  ")); terminated is the case first = <<>>
delimited(first, size, input) ==
  LET a == tag(first, input) IN
  IF IsNone(a) THEN None
  ELSE LET b == id(size, Unwrap(a).rest) IN
       IF IsNone(b) THEN None
       ELSE LET c == tag(<<SP, SP>>, Unwrap(b).rest) IN
            IF IsNone(c) THEN None
            ELSE Some([rest |-> Unwrap(c).rest, id |-> Unwrap(b).id])

vendor(input) == delimited(<<>>, 4, input)
device(input) == delimited(<<TAB>>, 4, input)
interface(input) == delimited(<<TAB, TAB>>, 2, input)
class(input) == delimited(<<"C", SP>>, 2, input)
sub_class(input) == delimited(<<TAB>>, 2, input)
protocol(input) == delimited(<<TAB, TAB>>, 2, input)

\* ------------------------------------------------ build.rs: code generation
\* quote!(#interface) / quote!(#protocol): the runtime Interface / Protocol
ToTokensLeaf(x) == [id |-> x.id, name |-> x.name]

\* the code generation leaving out the device pushed last
ToTokensCgVendor_DropsLastDevice(v) ==
  [id |-> v.id, name |-> v.name,
   devices |-> [k \in 1..(Len(v.devices) - 1) |->
                  [vendor_id |-> v.id, id |-> v.devices[k].id,
                   name |-> v.devices[k].name,
                   interfaces |-> [j \in 1..Len(v.devices[k].interfaces) |->
                                     ToTokensLeaf(v.devices[k].interfaces[j])]]]]

\* the code generation writing the devices last pushed first
ToTokensCgVendor_ReversesDevices(v) ==
  [id |-> v.id, name |-> v.name,
   devices |-> [k \in 1..Len(v.devices) |->
                  [vendor_id |-> v.id, id |-> v.devices[Len(v.devices) + 1 - k].id,
                   name |-> v.devices[Len(v.devices) + 1 - k].name,
                   interfaces |-> [j \in 1..Len(v.devices[Len(v.devices) + 1 - k].interfaces) |->
                                     ToTokensLeaf(v.devices[Len(v.devices) + 1 - k].interfaces[j])]]]]

\* the code generation with each Device's vendor_id taken from the device
ToTokensCgVendor_DeviceIdAsVendorId(v) ==
  [id |-> v.id, name |-> v.name,
   devices |-> [k \in 1..Len(v.devices) |->
                  [vendor_id |-> v.devices[k].id, id |-> v.devices[k].id,
                   name |-> v.devices[k].name,
                   interfaces |-> [j \in 1..Len(v.devices[k].interfaces) |->
                                     ToTokensLeaf(v.devices[k].interfaces[j])]]]]

\* quote!(#vendor): the runtime Vendor; every Device carries the vendor's id
ToTokensCgVendor(v) ==
  [id |-> v.id, name |-> v.name,
   devices |-> [k \in 1..Len(v.devices) |->
                  [vendor_id |-> v.id, id |-> v.devices[k].id,
                   name |-> v.devices[k].name,
                   interfaces |-> [j \in 1..Len(v.devices[k].interfaces) |->
                                     ToTokensLeaf(v.devices[k].interfaces[j])]]]]

\* the code generation with each SubClass's class_id taken from the subclass
ToTokensCgClass_SubClassIdAsClassId(c) ==
  [id |-> c.id, name |-> c.name,
   sub_classes |-> [k \in 1..Len(c.sub_classes) |->
                      [class_id |-> c.sub_classes[k].id, id |-> c.sub_classes[k].id,
                       name |-> c.sub_classes[k].name,
                       protocols |-> [j \in 1..Len(c.sub_classes[k].protocols) |->
                                        ToTokensLeaf(c.sub_classes[k].protocols[j])]]]]

\* quote!(#class): the runtime Class; every SubClass carries the class's id
ToTokensCgClass(c) ==
  [id |-> c.id, name |-> c.name,
   sub_classes |-> [k \in 1..Len(c.sub_classes) |->
                      [class_id |-> c.id, id |-> c.sub_classes[k].id,
                       name |-> c.sub_classes[k].name,
                       protocols |-> [j \in 1..Len(c.sub_classes[k].protocols) |->
                                        ToTokensLeaf(c.sub_classes[k].protocols[j])]]]]

\* phf_codegen::Map::entry appends (key, value) to the pending entries
emit_vendor(map, v) == Append(map, [key |-> v.id, value |-> ToTokensCgVendor(v)])

emit_class(map, c) == Append(map, [key |-> c.id, value |-> ToTokensCgClass(c)])

\* phf_codegen::Map::build panics on a duplicate key
HasDuplicateKey(map) ==
  \E i, j \in 1..Len(map) : i < j /\ map[i].key = map[j].key

\* a build of the map that may lose the entry inserted last
Arrangements_MayLoseLastEntry(map) ==
  LET Orders(m) ==
        {a \in [1..Len(m) -> {m[i] : i \in 1..Len(m)}] :
           \A i \in 1..Len(m) : \E j \in 1..Len(m) : a[j] = m[i]}
  IN  Orders(map)
        \cup (IF Len(map) = 0 THEN {} ELSE Orders(SubSeq(map, 1, Len(map) - 1)))

\* The arrangements of the entries a built phf::Map may have: the order of
\* the entries is decided by the hash, not by the order of insertion.
Arrangements(map) ==
  {m \in [1..Len(map) -> {map[i] : i \in 1..Len(map)}] :
     \A i \in 1..Len(map) : \E j \in 1..Len(map) : m[j] = map[i]}

\* ------------------------------------------------------ build.rs: the parser
Vendors(cur, last) == [tag |-> "Vendors", cur |-> cur, last |-> last]
Classes(cur, last) == [tag |-> "Classes", cur |-> cur, last |-> last]
Types == [tag |-> "Types", cur |-> None, last |-> 0]

\* a lookup that stops at the first child, whatever its id
FindIndex_FirstChild(children, last) ==
  IF Len(children) > 0 THEN Some(1) ELSE None

\* iter_mut().find(|d| d.id == last): index of the first child with that id
FindIndex(children, last) ==
  IF \E k \in 1..Len(children) : children[k].id = last
  THEN Some(CHOOSE k \in 1..Len(children) :
              /\ children[k].id = last
              /\ \A j \in 1..(k - 1) : children[j].id # last)
  ELSE None

Outcome(ps, vm, cm, ctl) == [parser_state |-> ps, vmap |-> vm, cmap |-> cm, ctl |-> ctl]

\* the section switch without the test of the state the parser is in
SwitchSection_SwitchesAgain(ps, vm, cm, line) ==
  IF starts_with(line, <<"C", SP>>)
  THEN Outcome(Classes(None, 0),
               IF ps.tag = "Vendors" /\ IsSome(ps.cur)
               THEN emit_vendor(vm, Unwrap(ps.cur)) ELSE vm,
               cm, "next")
  ELSE IF starts_with(line, <<"A", "T", SP>>)
  THEN Outcome(Types, vm,
               IF ps.tag = "Classes" /\ IsSome(ps.cur)
               THEN emit_class(cm, Unwrap(ps.cur)) ELSE cm,
               "next")
  ELSE Outcome(ps, vm, cm, "next")

\* the section switch at the head of the loop body
SwitchSection(ps, vm, cm, line) ==
  IF starts_with(line, <<"C", SP>>) /\ ps.tag # "Classes"
  THEN Outcome(Classes(None, 0),
               IF ps.tag = "Vendors" /\ IsSome(ps.cur)
               THEN emit_vendor(vm, Unwrap(ps.cur)) ELSE vm,
               cm, "next")
  ELSE IF starts_with(line, <<"A", "T", SP>>) /\ ps.tag # "Types"
  THEN Outcome(Types, vm,
               IF ps.tag = "Classes" /\ IsSome(ps.cur)
               THEN emit_class(cm, Unwrap(ps.cur)) ELSE cm,
               "next")
  ELSE Outcome(ps, vm, cm, "next")

\* the Vendors arm without the panic of its last branch: a line that is no
\* VendorLine is dropped when no vendor is open
VendorsArm_DropsOrphans(ps, vm, cm, line) ==
  LET pv == vendor(line) IN
  IF IsSome(pv)
  THEN Outcome(Vendors(Some([id |-> Unwrap(pv).id, name |-> Unwrap(pv).rest,
                             devices |-> <<>>]), ps.last),
               IF IsSome(ps.cur) THEN emit_vendor(vm, Unwrap(ps.cur)) ELSE vm,
               cm, "next")
  ELSE IF IsSome(ps.cur) /\ IsSome(device(line))
  THEN Outcome(Vendors(Some([Unwrap(ps.cur) EXCEPT !.devices =
                               Append(@, [id |-> Unwrap(device(line)).id,
                                          name |-> Unwrap(device(line)).rest,
                                          interfaces |-> <<>>])]),
                       Unwrap(device(line)).id),
               vm, cm, "next")
  ELSE IF IsSome(ps.cur) /\ IsSome(interface(line))
          /\ IsNone(FindIndex(Unwrap(ps.cur).devices, ps.last))
  THEN Outcome(ps, vm, cm, "panic")
  ELSE IF IsSome(ps.cur) /\ IsSome(interface(line))
  THEN Outcome(Vendors(Some([Unwrap(ps.cur) EXCEPT
                               !.devices[Unwrap(FindIndex(Unwrap(ps.cur).devices, ps.last))].interfaces =
                                 Append(@, [id |-> Unwrap(interface(line)).id,
                                            name |-> Unwrap(interface(line)).rest])]),
                       ps.last),
               vm, cm, "next")
  ELSE Outcome(ps, vm, cm, "next")

\* the Vendors arm with find(..) not expected to succeed: an interface whose
\* device is not found is dropped
VendorsArm_SkipsOrphanInterface(ps, vm, cm, line) ==
  LET pv == vendor(line) IN
  IF IsSome(pv)
  THEN Outcome(Vendors(Some([id |-> Unwrap(pv).id, name |-> Unwrap(pv).rest,
                             devices |-> <<>>]), ps.last),
               IF IsSome(ps.cur) THEN emit_vendor(vm, Unwrap(ps.cur)) ELSE vm,
               cm, "next")
  ELSE IF IsNone(ps.cur)
  THEN Outcome(ps, vm, cm, "panic")
  ELSE IF IsSome(device(line))
  THEN Outcome(Vendors(Some([Unwrap(ps.cur) EXCEPT !.devices =
                               Append(@, [id |-> Unwrap(device(line)).id,
                                          name |-> Unwrap(device(line)).rest,
                                          interfaces |-> <<>>])]),
                       Unwrap(device(line)).id),
               vm, cm, "next")
  ELSE IF IsSome(interface(line))
          /\ IsSome(FindIndex(Unwrap(ps.cur).devices, ps.last))
  THEN Outcome(Vendors(Some([Unwrap(ps.cur) EXCEPT
                               !.devices[Unwrap(FindIndex(Unwrap(ps.cur).devices, ps.last))].interfaces =
                                 Append(@, [id |-> Unwrap(interface(line)).id,
                                            name |-> Unwrap(interface(line)).rest])]),
                       ps.last),
               vm, cm, "next")
  ELSE Outcome(ps, vm, cm, "next")

\* the Classes arm with a panic on a line of no known shape
ClassesArm_RejectsUnknownLines(ps, vm, cm, line) ==
  LET pc_ == class(line) IN
  IF IsSome(pc_)
  THEN Outcome(Classes(Some([id |-> Unwrap(pc_).id, name |-> Unwrap(pc_).rest,
                             sub_classes |-> <<>>]), ps.last),
               vm,
               IF IsSome(ps.cur) THEN emit_class(cm, Unwrap(ps.cur)) ELSE cm,
               "next")
  ELSE IF IsSome(ps.cur) /\ IsSome(sub_class(line))
  THEN Outcome(Classes(Some([Unwrap(ps.cur) EXCEPT !.sub_classes =
                               Append(@, [id |-> Unwrap(sub_class(line)).id,
                                          name |-> Unwrap(sub_class(line)).rest,
                                          protocols |-> <<>>])]),
                       Unwrap(sub_class(line)).id),
               vm, cm, "next")
  ELSE IF IsSome(ps.cur) /\ IsSome(protocol(line))
          /\ IsSome(FindIndex(Unwrap(ps.cur).sub_classes, ps.last))
  THEN Outcome(Classes(Some([Unwrap(ps.cur) EXCEPT
                               !.sub_classes[Unwrap(FindIndex(Unwrap(ps.cur).sub_classes, ps.last))].protocols =
                                 Append(@, [id |-> Unwrap(protocol(line)).id,
                                            name |-> Unwrap(protocol(line)).rest])]),
                       ps.last),
               vm, cm, "next")
  ELSE Outcome(ps, vm, cm, "panic")

\* match parser_state { ParserState::Vendors(..) => .. }
VendorsArm(ps, vm, cm, line) ==
  LET pv == vendor(line)
      pd == device(line)
      pi == interface(line)
  IN
  IF IsSome(pv)
  THEN Outcome(Vendors(Some([id |-> Unwrap(pv).id, name |-> Unwrap(pv).rest,
                             devices |-> <<>>]), ps.last),
               IF IsSome(ps.cur) THEN emit_vendor(vm, Unwrap(ps.cur)) ELSE vm,
               cm, "next")
  ELSE IF IsSome(ps.cur)
  THEN LET cv == Unwrap(ps.cur) IN
       IF IsSome(pd)
       THEN Outcome(Vendors(Some([cv EXCEPT !.devices =
                                    Append(@, [id |-> Unwrap(pd).id,
                                               name |-> Unwrap(pd).rest,
                                               interfaces |-> <<>>])]),
                            Unwrap(pd).id),
                    vm, cm, "next")
       ELSE IF IsSome(pi)
       THEN LET k == FindIndex(cv.devices, ps.last) IN
            IF IsNone(k) THEN Outcome(ps, vm, cm, "panic")
            ELSE Outcome(Vendors(Some([cv EXCEPT !.devices[Unwrap(k)].interfaces =
                                         Append(@, [id |-> Unwrap(pi).id,
                                                    name |-> Unwrap(pi).rest])]),
                                 ps.last),
                         vm, cm, "next")
       ELSE Outcome(ps, vm, cm, "next")
  ELSE Outcome(ps, vm, cm, "panic")

\* the Classes arm with curr_class.take() not followed by the assignment of
\* the new class when a class was open
ClassesArm_TakesWithoutReplacing(ps, vm, cm, line) ==
  IF IsSome(class(line)) /\ IsSome(ps.cur)
  THEN Outcome(Classes(None, ps.last), vm, emit_class(cm, Unwrap(ps.cur)), "next")
  ELSE IF IsSome(class(line))
  THEN Outcome(Classes(Some([id |-> Unwrap(class(line)).id,
                             name |-> Unwrap(class(line)).rest,
                             sub_classes |-> <<>>]), ps.last),
               vm, cm, "next")
  ELSE IF IsNone(ps.cur)
  THEN Outcome(ps, vm, cm, "panic")
  ELSE IF IsSome(sub_class(line))
  THEN Outcome(Classes(Some([Unwrap(ps.cur) EXCEPT !.sub_classes =
                               Append(@, [id |-> Unwrap(sub_class(line)).id,
                                          name |-> Unwrap(sub_class(line)).rest,
                                          protocols |-> <<>>])]),
                       Unwrap(sub_class(line)).id),
               vm, cm, "next")
  ELSE IF IsSome(protocol(line))
          /\ IsNone(FindIndex(Unwrap(ps.cur).sub_classes, ps.last))
  THEN Outcome(ps, vm, cm, "panic")
  ELSE IF IsSome(protocol(line))
  THEN Outcome(Classes(Some([Unwrap(ps.cur) EXCEPT
                               !.sub_classes[Unwrap(FindIndex(Unwrap(ps.cur).sub_classes, ps.last))].protocols =
                                 Append(@, [id |-> Unwrap(protocol(line)).id,
                                            name |-> Unwrap(protocol(line)).rest])]),
                       ps.last),
               vm, cm, "next")
  ELSE Outcome(ps, vm, cm, "next")

\* the Classes arm taking a line of the shape of a device for a subclass
ClassesArm_MisattributesDevices(ps, vm, cm, line) ==
  LET pc_ == class(line)
      psc == IF IsSome(sub_class(line)) THEN sub_class(line) ELSE device(line)
      pp == protocol(line)
  IN
  IF IsSome(pc_)
  THEN Outcome(Classes(Some([id |-> Unwrap(pc_).id, name |-> Unwrap(pc_).rest,
                             sub_classes |-> <<>>]), ps.last),
               vm,
               IF IsSome(ps.cur) THEN emit_class(cm, Unwrap(ps.cur)) ELSE cm,
               "next")
  ELSE IF IsSome(ps.cur)
  THEN LET cc == Unwrap(ps.cur) IN
       IF IsSome(psc)
       THEN Outcome(Classes(Some([cc EXCEPT !.sub_classes =
                                    Append(@, [id |-> Unwrap(psc).id,
                                               name |-> Unwrap(psc).rest,
                                               protocols |-> <<>>])]),
                            Unwrap(psc).id),
                    vm, cm, "next")
       ELSE IF IsSome(pp)
       THEN LET k == FindIndex(cc.sub_classes, ps.last) IN
            IF IsNone(k) THEN Outcome(ps, vm, cm, "panic")
            ELSE Outcome(Classes(Some([cc EXCEPT !.sub_classes[Unwrap(k)].protocols =
                                         Append(@, [id |-> Unwrap(pp).id,
                                                    name |-> Unwrap(pp).rest])]),
                                 ps.last),
                         vm, cm, "next")
       ELSE Outcome(ps, vm, cm, "next")
  ELSE Outcome(ps, vm, cm, "panic")

\* match parser_state { ParserState::Classes(..) => .. }
ClassesArm(ps, vm, cm, line) ==
  LET pc_ == class(line)
      psc == sub_class(line)
      pp == protocol(line)
  IN
  IF IsSome(pc_)
  THEN Outcome(Classes(Some([id |-> Unwrap(pc_).id, name |-> Unwrap(pc_).rest,
                             sub_classes |-> <<>>]), ps.last),
               vm,
               IF IsSome(ps.cur) THEN emit_class(cm, Unwrap(ps.cur)) ELSE cm,
               "next")
  ELSE IF IsSome(ps.cur)
  THEN LET cc == Unwrap(ps.cur) IN
       IF IsSome(psc)
       THEN Outcome(Classes(Some([cc EXCEPT !.sub_classes =
                                    Append(@, [id |-> Unwrap(psc).id,
                                               name |-> Unwrap(psc).rest,
                                               protocols |-> <<>>])]),
                            Unwrap(psc).id),
                    vm, cm, "next")
       ELSE IF IsSome(pp)
       THEN LET k == FindIndex(cc.sub_classes, ps.last) IN
            IF IsNone(k) THEN Outcome(ps, vm, cm, "panic")
            ELSE Outcome(Classes(Some([cc EXCEPT !.sub_classes[Unwrap(k)].protocols =
                                         Append(@, [id |-> Unwrap(pp).id,
                                                    name |-> Unwrap(pp).rest])]),
                                 ps.last),
                         vm, cm, "next")
       ELSE Outcome(ps, vm, cm, "next")
  ELSE Outcome(ps, vm, cm, "panic")

\* the loop body without the skip of empty lines and comments
LoopBody_HandlesEveryLine(ps, vm, cm, line) ==
  LET sw == SwitchSection(ps, vm, cm, line) IN
  CASE sw.parser_state.tag = "Vendors" ->
         VendorsArm(sw.parser_state, sw.vmap, sw.cmap, line)
    [] sw.parser_state.tag = "Classes" ->
         ClassesArm(sw.parser_state, sw.vmap, sw.cmap, line)
    [] sw.parser_state.tag = "Types" ->
         Outcome(sw.parser_state, sw.vmap, sw.cmap, "break")

\* the loop body with a Types arm that goes on to the next line
LoopBody_TypesContinues(ps, vm, cm, line) ==
  IF is_empty(line) \/ starts_with(line, <<"#">>)
  THEN Outcome(ps, vm, cm, "next")
  ELSE LET sw == SwitchSection(ps, vm, cm, line) IN
       CASE sw.parser_state.tag = "Vendors" ->
              VendorsArm(sw.parser_state, sw.vmap, sw.cmap, line)
         [] sw.parser_state.tag = "Classes" ->
              ClassesArm(sw.parser_state, sw.vmap, sw.cmap, line)
         [] sw.parser_state.tag = "Types" ->
              Outcome(sw.parser_state, sw.vmap, sw.cmap, "next")

\* one iteration of `for line in input.lines()`
LoopBody(ps, vm, cm, line) ==
  IF is_empty(line) \/ starts_with(line, <<"#">>)
  THEN Outcome(ps, vm, cm, "next")
  ELSE LET sw == SwitchSection(ps, vm, cm, line) IN
       CASE sw.parser_state.tag = "Vendors" ->
              VendorsArm(sw.parser_state, sw.vmap, sw.cmap, line)
         [] sw.parser_state.tag = "Classes" ->
              ClassesArm(sw.parser_state, sw.vmap, sw.cmap, line)
         [] sw.parser_state.tag = "Types" ->
              Outcome(sw.parser_state, sw.vmap, sw.cmap, "break")

\* ------------------------------------------------------------------- state
VARIABLES
  input,         \* the lines of src/usb.ids read so far, when they are kept
  nread,         \* the number of lines read so far
  parser_state,  \* ParserState of main
  vmap,          \* VMap of main: the pending vendor entries
  cmap,          \* CMap of main: the pending class entries
  output,        \* usb_ids.cg.rs: the maps written so far
  pc,            \* where the program is: "loop", "emit_vendors", "emit_classes"
                 \* (main of build.rs), "panic" (main panicked), "done" (the
                 \* crate is built and can be queried) or "caller_panic" (a
                 \* query panicked)
  result,        \* the last call of the query API and what it returned
  second         \* a second run of build.rs on the same file: the number of
                 \* lines it has read and its parser_state, vmap, cmap, output, pc

vars == <<input, nread, parser_state, vmap, cmap, output, pc, result, second>>

\* ------------------------------------------------------- src/lib.rs: queries
\* include!(.../usb_ids.cg.rs): the statics of the crate built from written
Statics(written) == [USB_IDS |-> written[1], USB_CLASSES |-> written[2]]

\* What a call does: it returns a value or it panics.
Returned(x) == [panicked |-> FALSE, ret |-> x]
Panicked == [panicked |-> TRUE, ret |-> None]

\* phf::Map::get
MapGet(map, key) ==
  IF \E i \in 1..Len(map) : map[i].key = key
  THEN Some((CHOOSE e \in {map[i] : i \in 1..Len(map)} : e.key = key).value)
  ELSE None

\* phf::Map::values
MapValues(map) == [i \in 1..Len(map) |-> map[i].value]

\* Iterator::find(|x| x.id == id): the first element with that id
FindById(items, id_) ==
  LET k == FindIndex(items, id_) IN
  IF IsSome(k) THEN Some(items[Unwrap(k)]) ELSE None

Vendor_from_id(db, id_) == Returned(MapGet(db.USB_IDS, id_))

Class_from_id(db, id_) == Returned(MapGet(db.USB_CLASSES, id_))

\* the lookup with the vendor unwrapped instead of chained
Device_from_vid_pid_Unwraps(db, vid, pid) ==
  LET v == MapGet(db.USB_IDS, vid) IN
  IF IsSome(v) THEN Returned(FindById(Unwrap(v).devices, pid)) ELSE Panicked

Device_from_vid_pid(db, vid, pid) ==
  LET v == Vendor_from_id(db, vid).ret IN
  Returned(IF IsSome(v) THEN FindById(Unwrap(v).devices, pid) ELSE None)

Device_vendor(db, d) ==
  LET v == MapGet(db.USB_IDS, d.vendor_id) IN
  IF IsSome(v) THEN Returned(Unwrap(v)) ELSE Panicked

\* the pair with the device id first
Device_as_vid_pid_Swapped(d) == Returned(<<d.id, d.vendor_id>>)

Device_as_vid_pid(d) == Returned(<<d.vendor_id, d.id>>)

SubClass_from_cid_scid(db, class_id, id_) ==
  LET c == Class_from_id(db, class_id).ret IN
  Returned(IF IsSome(c) THEN FindById(Unwrap(c).sub_classes, id_) ELSE None)

\* the descent with the class id and the subclass id passed in the wrong order
Protocol_from_cid_scid_pid_SwappedIds(db, class_id, subclass_id, id_) ==
  LET s == SubClass_from_cid_scid(db, subclass_id, class_id).ret IN
  Returned(IF IsSome(s) THEN FindById(Unwrap(s).protocols, id_) ELSE None)

Protocol_from_cid_scid_pid(db, class_id, subclass_id, id_) ==
  LET s == SubClass_from_cid_scid(db, class_id, subclass_id).ret IN
  Returned(IF IsSome(s) THEN FindById(Unwrap(s).protocols, id_) ELSE None)

Vendors_iter(db) == Returned(MapValues(db.USB_IDS))

Classes_iter(db) == Returned(MapValues(db.USB_CLASSES))

\* the crate the callers of the model query: the one built by the first run
Catalog == Statics(output)

\* the ids the queries of the model are made with: the ids of the lines of
\* Lines, and 0, which no line has
Vids == {0, 1, 2}
Pids == {0, 1, 16}
Ids8 == {0, 1, 2}

\* the devices a caller can hold: those reachable from the catalog
DevicesOf(db) ==
  UNION {{db.USB_IDS[i].value.devices[k] : k \in 1..Len(db.USB_IDS[i].value.devices)} :
           i \in 1..Len(db.USB_IDS)}

NoCall == [op |-> "none", out |-> Returned(None)]

\* ----------------------------------------------------------------- actions
NotStarted ==
  [pos |-> 0, parser_state |-> Vendors(None, 0), vmap |-> <<>>, cmap |-> <<>>,
   output |-> <<>>, pc |-> "loop"]

Init ==
  /\ input = <<>>
  /\ nread = 0
  /\ parser_state = Vendors(None, 0)
  /\ vmap = <<>>
  /\ cmap = <<>>
  /\ output = <<>>
  /\ pc = "loop"
  /\ result = NoCall
  /\ second = NotStarted

AfterLine(ctl) ==
  CASE ctl = "next" -> "loop"
    [] ctl = "break" -> "emit_vendors"
    [] ctl = "panic" -> "panic"

\* the loop writing the vendor map to the file whenever a vendor is flushed
ReadLine_WritesAsItGoes ==
  /\ pc = "loop"
  /\ nread < MaxLines
  /\ nread' = nread + 1
  /\ \E line \in Lines :
       LET r == LoopBody(parser_state, vmap, cmap, line) IN
       /\ input' = Append(input, line)
       /\ parser_state' = r.parser_state
       /\ vmap' = r.vmap
       /\ cmap' = r.cmap
       /\ pc' = AfterLine(r.ctl)
       /\ output' = IF r.vmap # vmap THEN <<r.vmap>> ELSE output
  /\ UNCHANGED <<result, second>>

\* the loop reads the next line of the file and runs the loop body on it
ReadLine ==
  /\ pc = "loop"
  /\ nread < MaxLines
  /\ nread' = nread + 1
  /\ \E line \in Lines :
       LET r == LoopBody(parser_state, vmap, cmap, line) IN
       /\ input' = Append(input, line)
       /\ parser_state' = r.parser_state
       /\ vmap' = r.vmap
       /\ cmap' = r.cmap
       /\ pc' = AfterLine(r.ctl)
  /\ UNCHANGED <<output, result, second>>

\* the same step with the text of the line not kept: what the build writes
\* and what the queries return depend on parser_state, vmap and cmap alone
ReadLineUntracked ==
  /\ pc = "loop"
  /\ nread < MaxLinesUntracked
  /\ nread' = nread + 1
  /\ \E line \in Lines :
       LET r == LoopBody(parser_state, vmap, cmap, line) IN
       /\ parser_state' = r.parser_state
       /\ vmap' = r.vmap
       /\ cmap' = r.cmap
       /\ pc' = AfterLine(r.ctl)
  /\ UNCHANGED <<input, output, result, second>>

\* input.lines() is exhausted: the loop ends
EndOfInput ==
  /\ pc = "loop"
  /\ pc' = "emit_vendors"
  /\ UNCHANGED <<input, nread, parser_state, vmap, cmap, output, result, second>>

\* emit_epilogue(prologue, &mut output, map): what it leaves in the file and
\* whether it returns
emit_epilogue(written, map) ==
  IF HasDuplicateKey(map)
  THEN {[output |-> written, panicked |-> TRUE]}
  ELSE {[output |-> Append(written, m), panicked |-> FALSE] : m \in Arrangements(map)}

\* emit_epilogue(VENDOR_PROLOGUE, &mut output, vmap)
EmitVendors ==
  /\ pc = "emit_vendors"
  /\ \E e \in emit_epilogue(output, vmap) :
       /\ output' = e.output
       /\ pc' = IF e.panicked THEN "panic" ELSE "emit_classes"
  /\ UNCHANGED <<input, nread, parser_state, vmap, cmap, result, second>>

\* emit_epilogue(CLASS_PROLOGUE, &mut output, cmap)
EmitClasses ==
  /\ pc = "emit_classes"
  /\ \E e \in emit_epilogue(output, cmap) :
       /\ output' = e.output
       /\ pc' = IF e.panicked THEN "panic" ELSE "done"
  /\ UNCHANGED <<input, nread, parser_state, vmap, cmap, result, second>>

\* a call of the query API by the (sequential) caller: it leaves everything
\* but its own result alone, and a panic ends the process
Call(op, out) ==
  /\ pc = "done"
  /\ result = NoCall
  /\ result' = [op |-> op, out |-> out]
  /\ pc' = IF out.panicked THEN "caller_panic" ELSE "done"
  /\ UNCHANGED <<input, nread, parser_state, vmap, cmap, output, second>>

QueryVendorFromId ==
  \E i \in Vids : Call("Vendor::from_id", Vendor_from_id(Catalog, i))

QueryClassFromId ==
  \E i \in Ids8 : Call("Class::from_id", Class_from_id(Catalog, i))

QueryDeviceFromVidPid ==
  \E vid \in Vids, pid \in Pids :
    Call("Device::from_vid_pid", Device_from_vid_pid(Catalog, vid, pid))

QueryDeviceVendor ==
  /\ pc = "done"
  /\ \E d \in DevicesOf(Catalog) : Call("Device::vendor", Device_vendor(Catalog, d))

QueryDeviceAsVidPid ==
  /\ pc = "done"
  /\ \E d \in DevicesOf(Catalog) : Call("Device::as_vid_pid", Device_as_vid_pid(d))

QuerySubClassFromCidScid ==
  \E c \in Ids8, s \in Ids8 :
    Call("SubClass::from_cid_scid", SubClass_from_cid_scid(Catalog, c, s))

QueryProtocolFromCidScidPid ==
  \E c \in Ids8, s \in Ids8, p \in Ids8 :
    Call("Protocol::from_cid_scid_pid", Protocol_from_cid_scid_pid(Catalog, c, s, p))

QueryVendorsIter == Call("Vendors::iter", Vendors_iter(Catalog))

QueryClassesIter == Call("Classes::iter", Classes_iter(Catalog))

\* the caller is done with the value it was returned
DropResult ==
  /\ pc = "done"
  /\ result # NoCall
  /\ result' = NoCall
  /\ UNCHANGED <<input, nread, parser_state, vmap, cmap, output, pc, second>>

\* the build, with the text it reads kept
Next ==
  \/ ReadLine
  \/ EndOfInput
  \/ EmitVendors
  \/ EmitClasses

Spec == Init /\ [][Next]_vars

\* the build, then the queries of the crate it built
NextQueries ==
  \/ ReadLineUntracked
  \/ EndOfInput
  \/ EmitVendors
  \/ EmitClasses
  \/ QueryVendorFromId
  \/ QueryClassFromId
  \/ QueryDeviceFromVidPid
  \/ QueryDeviceVendor
  \/ QueryDeviceAsVidPid
  \/ QuerySubClassFromCidScid
  \/ QueryProtocolFromCidScidPid
  \/ QueryVendorsIter
  \/ QueryClassesIter
  \/ DropResult

SpecQueries == Init /\ [][NextQueries]_vars

\* ------------------------------------------- a second run of the same build
\* build.rs run again on the file the first run read, once the first run has
\* ended; the lines of the file are those of input.
FirstRunEnded == pc \in {"done", "panic"} /\ result = NoCall

SecondReadLine ==
  /\ FirstRunEnded
  /\ second.pc = "loop"
  /\ second.pos < Len(input)
  /\ LET r == LoopBody(second.parser_state, second.vmap, second.cmap,
                       input[second.pos + 1])
     IN  second' = [second EXCEPT !.pos = @ + 1,
                                  !.parser_state = r.parser_state,
                                  !.vmap = r.vmap,
                                  !.cmap = r.cmap,
                                  !.pc = AfterLine(r.ctl)]
  /\ UNCHANGED <<input, nread, parser_state, vmap, cmap, output, pc, result>>

SecondEndOfInput ==
  /\ FirstRunEnded
  /\ second.pc = "loop"
  /\ second.pos = Len(input)
  /\ second' = [second EXCEPT !.pc = "emit_vendors"]
  /\ UNCHANGED <<input, nread, parser_state, vmap, cmap, output, pc, result>>

SecondEmitVendors ==
  /\ second.pc = "emit_vendors"
  /\ \E e \in emit_epilogue(second.output, second.vmap) :
       second' = [second EXCEPT !.output = e.output,
                                !.pc = IF e.panicked THEN "panic" ELSE "emit_classes"]
  /\ UNCHANGED <<input, nread, parser_state, vmap, cmap, output, pc, result>>

SecondEmitClasses ==
  /\ second.pc = "emit_classes"
  /\ \E e \in emit_epilogue(second.output, second.cmap) :
       second' = [second EXCEPT !.output = e.output,
                                !.pc = IF e.panicked THEN "panic" ELSE "done"]
  /\ UNCHANGED <<input, nread, parser_state, vmap, cmap, output, pc, result>>

NextTwoRuns ==
  \/ ReadLine
  \/ EndOfInput
  \/ EmitVendors
  \/ EmitClasses
  \/ SecondReadLine
  \/ SecondEndOfInput
  \/ SecondEmitVendors
  \/ SecondEmitClasses

SpecTwoRuns == Init /\ [][NextTwoRuns]_vars

\* ------------------------------- the class section beside the vendor section
\* The lines of a class section: ClassHeaderLines, SubClassLines, ProtocolLines.
ClassSectionLines == {C1L, C2L, S1, S2, I1, I2}

\* The line of the vendor section with the id and the name of a line of the
\* class section: the VendorLine of a ClassHeaderLine, the DeviceLine of a
\* SubClassLine (ids of the vendor section have four hex digits), the
\* InterfaceLine of a ProtocolLine.
Mirror(line) ==
  IF starts_with(line, <<"C", SP>>) THEN <<"0", "0">> \o Drop(line, 2)
  ELSE IF starts_with(line, <<TAB, TAB>>) THEN line
  ELSE <<TAB, "0", "0">> \o Drop(line, 1)

\* The build reads a line of a class section that begins with a
\* ClassHeaderLine, and a second build, started afresh, reads its mirror.
MirroredReadLine ==
  /\ pc = "loop"
  /\ second.pc = "loop"
  /\ nread < MaxLines
  /\ nread' = nread + 1
  /\ \E line \in ClassSectionLines :
       LET r == LoopBody(parser_state, vmap, cmap, line)
           m == LoopBody(second.parser_state, second.vmap, second.cmap, Mirror(line))
       IN
       /\ nread = 0 => IsSome(class(line))
       /\ input' = Append(input, line)
       /\ parser_state' = r.parser_state
       /\ vmap' = r.vmap
       /\ cmap' = r.cmap
       /\ pc' = AfterLine(r.ctl)
       /\ second' = [second EXCEPT !.pos = @ + 1,
                                   !.parser_state = m.parser_state,
                                   !.vmap = m.vmap,
                                   !.cmap = m.cmap,
                                   !.pc = AfterLine(m.ctl)]
  /\ UNCHANGED <<output, result>>

NextMirrored ==
  \/ MirroredReadLine
  \/ EndOfInput
  \/ EmitVendors
  \/ EmitClasses
  \/ SecondEndOfInput
  \/ SecondEmitVendors
  \/ SecondEmitClasses

SpecMirrored == Init /\ [][NextMirrored]_vars

\* ------------------------------------------------- the registry, as written
\* What the text read so far says, line by line, whatever the parser did
\* with it.  A line belongs to the vendor section when no line up to it starts
\* with "C " or "AT ", and to the class section when a line up to it starts
\* with "C " and none starts with "AT ".
StartsClasses(line) == starts_with(line, <<"C", SP>>)
StartsTypes(line) == starts_with(line, <<"A", "T", SP>>)

InVendorSection(i) ==
  \A j \in 1..i : ~StartsClasses(input[j]) /\ ~StartsTypes(input[j])

InClassSection(i) ==
  /\ \E j \in 1..i : StartsClasses(input[j])
  /\ \A j \in 1..i : ~StartsTypes(input[j])

IsVendorLine(i) == InVendorSection(i) /\ IsSome(vendor(input[i]))
IsDeviceLine(i) == InVendorSection(i) /\ IsSome(device(input[i]))
IsClassHeaderLine(i) == InClassSection(i) /\ IsSome(class(input[i]))

\* the registry has a VendorLine vid with a DeviceLine pid among its devices
RegistryHasDevice(vid, pid) ==
  \E i, j \in 1..Len(input) :
    /\ i < j
    /\ IsVendorLine(i) /\ Unwrap(vendor(input[i])).id = vid
    /\ IsDeviceLine(j) /\ Unwrap(device(input[j])).id = pid
    /\ \A k \in (i + 1)..(j - 1) : ~IsVendorLine(k)

\* ------------------------------------------------------------------ claims

\* C1: when the build completes, every vendor id introduced by a VendorLine of
\* the vendor section, and every class id introduced by a ClassHeaderLine of
\* the class section, is found by Vendor::from_id / Class::from_id, and the
\* entity found has the id asked for and the name on that line.
C1_EveryRegistryIdIsFound ==
  pc = "done" =>
    /\ \A i \in 1..Len(input) : IsVendorLine(i) =>
         LET l == Unwrap(vendor(input[i]))
             v == Vendor_from_id(Catalog, l.id).ret
         IN  IsSome(v) /\ Unwrap(v).id = l.id /\ Unwrap(v).name = l.rest
    /\ \A i \in 1..Len(input) : IsClassHeaderLine(i) =>
         LET l == Unwrap(class(input[i]))
             c == Class_from_id(Catalog, l.id).ret
         IN  IsSome(c) /\ Unwrap(c).id = l.id /\ Unwrap(c).name = l.rest

\* C2: when the input ends while a vendor or a class is open, that vendor or
\* class is in the finished vendor map or class map, with every child
\* appended to it so far.
C2_EndOfInputFlushesOpenParent ==
  (pc \in {"emit_vendors", "emit_classes", "done"} /\ IsSome(parser_state.cur)) =>
    /\ parser_state.tag = "Vendors" =>
         \E i \in 1..Len(vmap) :
           vmap[i] = [key |-> Unwrap(parser_state.cur).id,
                      value |-> ToTokensCgVendor(Unwrap(parser_state.cur))]
    /\ parser_state.tag = "Classes" =>
         \E i \in 1..Len(cmap) :
           cmap[i] = [key |-> Unwrap(parser_state.cur).id,
                      value |-> ToTokensCgClass(Unwrap(parser_state.cur))]

\* C3: Device::from_vid_pid(vid, pid) is present if and only if the registry's
\* vendor section has a VendorLine vid with a DeviceLine pid among its
\* devices, and a device that is present has id pid and vendor_id vid.
C3_DeviceFoundIffInRegistry ==
  pc = "done" =>
    \A vid \in Vids, pid \in Pids :
      LET d == Device_from_vid_pid(Catalog, vid, pid).ret IN
      /\ IsSome(d) <=> RegistryHasDevice(vid, pid)
      /\ IsSome(d) => Unwrap(d).id = pid /\ Unwrap(d).vendor_id = vid

\* C4: Protocol::from_cid_scid_pid(c, s, p) is present if and only if
\* SubClass::from_cid_scid(c, s) is present and the protocols of the subclass
\* it returns contain one with id p; the protocol returned is an element of
\* that sequence and has id p.
C4_ProtocolDescent ==
  pc = "done" =>
    \A c \in Ids8, s \in Ids8, p \in Ids8 :
      LET pr == Protocol_from_cid_scid_pid(Catalog, c, s, p)
          sc == SubClass_from_cid_scid(Catalog, c, s).ret
      IN
      /\ ~pr.panicked
      /\ IsSome(pr.ret) <=>
           (IsSome(sc) /\ \E k \in 1..Len(Unwrap(sc).protocols) :
                            Unwrap(sc).protocols[k].id = p)
      /\ IsSome(pr.ret) =>
           /\ Unwrap(pr.ret).id = p
           /\ \E k \in 1..Len(Unwrap(sc).protocols) :
                Unwrap(sc).protocols[k] = Unwrap(pr.ret)

\* C4 witness: the three-level lookup was called and found a protocol.
C4_Witness ==
  /\ pc = "done"
  /\ result.op = "Protocol::from_cid_scid_pid"
  /\ IsSome(result.out.ret)

\* C5: for every device reachable from the catalog, Device::vendor returns,
\* the vendor it returns has the device's vendor_id as its id, and the device
\* is one of that vendor's devices.
C5_DeviceVendorBackReference ==
  pc = "done" =>
    \A d \in DevicesOf(Catalog) :
      LET v == Device_vendor(Catalog, d) IN
      /\ ~v.panicked
      /\ v.ret.id = d.vendor_id
      /\ \E k \in 1..Len(v.ret.devices) : v.ret.devices[k] = d

\* C5 witness: Device::vendor was called on a device of the catalog whose id
\* differs from its vendor's, and returned.
C5_Witness ==
  /\ pc = "done"
  /\ result.op = "Device::vendor"
  /\ ~result.out.panicked
  /\ \E k \in 1..Len(result.out.ret.devices) :
       result.out.ret.devices[k].id # result.out.ret.id

\* ------------------------------------------------ the line that a step read
ReadsALine == pc = "loop" /\ Len(input') = Len(input) + 1
LineRead == input'[Len(input')]

\* a child line: a DeviceLine, InterfaceLine, SubClassLine or ProtocolLine
IsChildShape(line) ==
  \/ IsSome(device(line))
  \/ IsSome(interface(line))
  \/ IsSome(sub_class(line))
  \/ IsSome(protocol(line))

\* a line that is not blank, not a comment, has none of the six entity
\* shapes and is no type-section marker
Unrecognized(line) ==
  /\ ~is_empty(line)
  /\ ~starts_with(line, <<"#">>)
  /\ IsNone(vendor(line))
  /\ IsNone(class(line))
  /\ ~IsChildShape(line)
  /\ ~StartsTypes(line)

NoVendorLineYet == \A i \in 1..Len(input) : IsNone(vendor(input[i]))

\* C6: a child line met in state Vendors before any VendorLine has opened a
\* vendor aborts the build: main panics at that line, nothing has been
\* written, and nothing happens after the panic.
C6_OrphanChildAborts ==
  [][/\ (ReadsALine /\ parser_state.tag = "Vendors" /\ NoVendorLineYet
           /\ IsChildShape(LineRead))
          => (pc' = "panic" /\ output' = <<>>)
     /\ pc = "panic" => (pc' = "panic" /\ output' = output)]_vars

\* C6 witness: the first line of the file is a DeviceLine and main panicked.
C6_Witness ==
  /\ pc = "panic"
  /\ Len(input) = 1
  /\ IsSome(device(input[1]))
  /\ output = <<>>

\* C7 as claimed: an Unrecognized line is skipped in every parser state; the
\* parser state and both maps are unchanged and the build is not aborted.
C7_UnrecognizedAlwaysSkipped ==
  [][(ReadsALine /\ Unrecognized(LineRead)) =>
       /\ parser_state' = parser_state
       /\ vmap' = vmap
       /\ cmap' = cmap
       /\ pc' = "loop"]_vars

\* C7 amended: an Unrecognized line is skipped, leaving the parser state and
\* both maps unchanged, when a vendor or a class is open, unless it starts
\* with "C " and the parser is in Vendors; in Vendors with no vendor open, or
\* when it starts with "C " in Vendors, the build is aborted.
C7_UnrecognizedSkippedUnderOpenParent ==
  [][(ReadsALine /\ Unrecognized(LineRead)) =>
       IF parser_state.tag = "Vendors"
          /\ (IsNone(parser_state.cur) \/ StartsClasses(LineRead))
       THEN pc' = "panic"
       ELSE /\ IsSome(parser_state.cur)
            /\ parser_state' = parser_state
            /\ vmap' = vmap
            /\ cmap' = cmap
            /\ pc' = "loop"]_vars

\* C7 witness: an Unrecognized line was read under an open parent and the
\* loop goes on.
C7_Witness ==
  /\ pc = "loop"
  /\ Len(input) >= 2
  /\ Unrecognized(input[Len(input)])
  /\ IsSome(parser_state.cur)

\* C8: nothing is written while the lines are processed, so a build that
\* aborts at a line leaves no map behind, whatever was flushed before; the
\* maps are written only by the epilogue, which is entered only from the
\* loop, and nothing happens after a panic.
C8_NoCatalogOnAbort ==
  [][/\ pc = "loop" => (output = <<>> /\ output' = <<>>)
     /\ pc = "panic" => (pc' = "panic" /\ output' = output)
     /\ output' # output => pc \in {"emit_vendors", "emit_classes"}
     /\ (pc' = "emit_vendors" /\ pc # "emit_vendors") => pc = "loop"
     /\ (pc' = "done" /\ pc # "done") => (pc = "emit_classes" /\ Len(output') = 2)]_vars

\* C8 witness: main panicked at a line after a vendor had been flushed into
\* the vendor map, and nothing was written.
C8_Witness ==
  /\ pc = "panic"
  /\ Len(vmap) > 0
  /\ output = <<>>

QueryOps ==
  {"Vendor::from_id", "Class::from_id", "Device::from_vid_pid",
   "SubClass::from_cid_scid", "Protocol::from_cid_scid_pid",
   "Vendors::iter", "Classes::iter"}

\* C9: a call of a query operation changes nothing but its own result and
\* never panics, and a lookup with an id that is missing at any level
\* returns None.
C9_QueriesArePureReads ==
  /\ [][(pc = "done" /\ result' # result /\ result'.op \in QueryOps) =>
          /\ output' = output
          /\ vmap' = vmap
          /\ cmap' = cmap
          /\ pc' = "done"
          /\ ~result'.out.panicked]_vars
  /\ [](pc = "done" =>
          /\ Vendor_from_id(Catalog, 0) = Returned(None)
          /\ Class_from_id(Catalog, 0) = Returned(None)
          /\ \A v \in Vids, p \in Pids :
               (v = 0 \/ p = 0) => Device_from_vid_pid(Catalog, v, p) = Returned(None)
          /\ \A c \in Ids8, s \in Ids8 :
               (c = 0 \/ s = 0) => SubClass_from_cid_scid(Catalog, c, s) = Returned(None)
          /\ \A c \in Ids8, s \in Ids8, p \in Ids8 :
               (c = 0 \/ s = 0 \/ p = 0) =>
                 Protocol_from_cid_scid_pid(Catalog, c, s, p) = Returned(None))

\* C9 witness: Device::from_vid_pid was called on a catalog that has vendors
\* and classes, missed, and returned None.
C9_Witness ==
  /\ pc = "done"
  /\ Len(output[1]) > 0
  /\ Len(output[2]) > 0
  /\ result = [op |-> "Device::from_vid_pid", out |-> Returned(None)]

\* the values of a sequence, without their order
Contents(items) == {items[k] : k \in 1..Len(items)}

\* two crates answer every query alike: the direct lookups, the composite
\* lookups, and what the two iterations yield
SameAnswers(a, b) ==
  /\ \A v \in Vids : Vendor_from_id(a, v) = Vendor_from_id(b, v)
  /\ \A c \in Ids8 : Class_from_id(a, c) = Class_from_id(b, c)
  /\ \A v \in Vids, p \in Pids :
       Device_from_vid_pid(a, v, p) = Device_from_vid_pid(b, v, p)
  /\ \A c \in Ids8, s \in Ids8 :
       SubClass_from_cid_scid(a, c, s) = SubClass_from_cid_scid(b, c, s)
  /\ \A c \in Ids8, s \in Ids8, p \in Ids8 :
       Protocol_from_cid_scid_pid(a, c, s, p) = Protocol_from_cid_scid_pid(b, c, s, p)
  /\ Len(Vendors_iter(a).ret) = Len(Vendors_iter(b).ret)
  /\ Contents(Vendors_iter(a).ret) = Contents(Vendors_iter(b).ret)
  /\ Len(Classes_iter(a).ret) = Len(Classes_iter(b).ret)
  /\ Contents(Classes_iter(a).ret) = Contents(Classes_iter(b).ret)

C11_VidPidRoundTrip ==
  pc = "done" =>
    \A vid \in Vids, pid \in Pids :
      LET d == Device_from_vid_pid(Catalog, vid, pid).ret IN
      IsSome(d) =>
        LET pair == Device_as_vid_pid(Unwrap(d))
            v == Device_vendor(Catalog, Unwrap(d))
        IN
        /\ ~pair.panicked
        /\ ~v.panicked
        /\ pair.ret = <<v.ret.id, Unwrap(d).id>>
        /\ pair.ret = <<vid, pid>>
        /\ Device_from_vid_pid(Catalog, pair.ret[1], pair.ret[2]) = Returned(d)

\* C11 witness: as_vid_pid was called on a device of the catalog whose id
\* differs from its vendor's, and Device::from_vid_pid finds that device.
C11_Witness ==
  /\ pc = "done"
  /\ result.op = "Device::as_vid_pid"
  /\ result.out.ret[1] # result.out.ret[2]
  /\ IsSome(Device_from_vid_pid(Catalog, result.out.ret[1], result.out.ret[2]).ret)

\* ------------------------------------- the vendor section, vendor by vendor
NumVendorLines == Cardinality({i \in 1..Len(input) : IsVendorLine(i)})

\* the line of the k-th VendorLine of the vendor section
NthVendorLine(k) ==
  CHOOSE i \in 1..Len(input) :
    /\ IsVendorLine(i)
    /\ Cardinality({j \in 1..(i - 1) : IsVendorLine(j)}) = k - 1

\* the DeviceLines after the VendorLine of line i and before the next
\* VendorLine or the end of the vendor section, in the order of the file
DeviceLinesOf(i) ==
  LET Mine(j) == /\ j > i
                 /\ IsDeviceLine(j)
                 /\ \A k \in (i + 1)..j : ~IsVendorLine(k)
      at == SelectSeq([j \in 1..Len(input) |-> j], Mine)
  IN  [n \in 1..Len(at) |-> [id |-> Unwrap(device(input[at[n]])).id,
                             name |-> Unwrap(device(input[at[n]])).rest]]

IdsAndNames(items) == [n \in 1..Len(items) |-> [id |-> items[n].id, name |-> items[n].name]]

\* C12: the k-th vendor flushed is the k-th VendorLine of the vendor section
\* and its devices are exactly the DeviceLines between that line and the next
\* VendorLine or the first class header, in order; a flushed vendor never
\* changes; and a VendorLine met while a vendor is open flushes that vendor
\* and opens the new one with no devices.
C12_VendorAttribution ==
  /\ [](/\ Len(vmap) <= NumVendorLines
        /\ \A k \in 1..Len(vmap) :
             LET l == Unwrap(vendor(input[NthVendorLine(k)])) IN
             /\ vmap[k].key = l.id
             /\ vmap[k].value.id = l.id
             /\ vmap[k].value.name = l.rest
             /\ IdsAndNames(vmap[k].value.devices) = DeviceLinesOf(NthVendorLine(k)))
  /\ [][/\ Len(vmap') >= Len(vmap)
        /\ \A k \in 1..Len(vmap) : vmap'[k] = vmap[k]
        /\ (ReadsALine /\ parser_state.tag = "Vendors" /\ IsSome(parser_state.cur)
              /\ IsSome(vendor(LineRead)))
             => /\ Len(vmap') = Len(vmap) + 1
                /\ vmap'[Len(vmap')].key = Unwrap(parser_state.cur).id
                /\ IdsAndNames(vmap'[Len(vmap')].value.devices)
                     = IdsAndNames(Unwrap(parser_state.cur).devices)
                /\ parser_state'.tag = "Vendors"
                /\ parser_state'.cur =
                     Some([id |-> Unwrap(vendor(LineRead)).id,
                           name |-> Unwrap(vendor(LineRead)).rest,
                           devices |-> <<>>])]_vars

\* C12 witness: two vendors have been flushed, the first one with a device.
C12_Witness ==
  /\ Len(vmap) = 2
  /\ Len(vmap[1].value.devices) > 0
  /\ Len(vmap[2].value.devices) = 0

\* the children of each child, by id and name
GrandChildren(items, field) ==
  [n \in 1..Len(items) |-> IdsAndNames(items[n][field])]

\* the class that the ClassHeaderLine line opens
OpenedClass(line) ==
  Some([id |-> Unwrap(class(line)).id, name |-> Unwrap(class(line)).rest,
        sub_classes |-> <<>>])

\* C13: a ClassHeaderLine read in Vendors appends the open vendor, if any, to
\* the vendor map with all its devices and their interfaces, and leaves the
\* parser in Classes with last id 0 and the class of that line open; read in
\* Classes it leaves the vendor map and the last id alone, and flushes the
\* open class instead of dropping it.
C13_ClassHeaderSwitchesSection ==
  [][(ReadsALine /\ IsSome(class(LineRead))) =>
       /\ pc' = "loop"
       /\ parser_state'.tag = "Classes"
       /\ parser_state'.cur = OpenedClass(LineRead)
       /\ IF parser_state.tag = "Vendors"
          THEN /\ parser_state'.last = 0
               /\ cmap' = cmap
               /\ IF IsNone(parser_state.cur) THEN vmap' = vmap
                  ELSE LET v == Unwrap(parser_state.cur) IN
                       /\ Len(vmap') = Len(vmap) + 1
                       /\ SubSeq(vmap', 1, Len(vmap)) = vmap
                       /\ vmap'[Len(vmap')].key = v.id
                       /\ vmap'[Len(vmap')].value.id = v.id
                       /\ vmap'[Len(vmap')].value.name = v.name
                       /\ IdsAndNames(vmap'[Len(vmap')].value.devices) = IdsAndNames(v.devices)
                       /\ GrandChildren(vmap'[Len(vmap')].value.devices, "interfaces")
                            = GrandChildren(v.devices, "interfaces")
          ELSE /\ parser_state'.last = parser_state.last
               /\ vmap' = vmap
               /\ IsSome(parser_state.cur)
               /\ Len(cmap') = Len(cmap) + 1
               /\ SubSeq(cmap', 1, Len(cmap)) = cmap
               /\ cmap'[Len(cmap')].key = Unwrap(parser_state.cur).id
               /\ IdsAndNames(cmap'[Len(cmap')].value.sub_classes)
                    = IdsAndNames(Unwrap(parser_state.cur).sub_classes)]_vars

\* C13 witness: a ClassHeaderLine was read while a vendor with a device with
\* an interface was open; the vendor is in the vendor map and the class is open.
C13_Witness ==
  /\ pc = "loop"
  /\ parser_state.tag = "Classes"
  /\ parser_state.last = 0
  /\ IsSome(class(input[Len(input)]))
  /\ parser_state.cur = OpenedClass(input[Len(input)])
  /\ Len(vmap) = 1
  /\ Len(vmap[1].value.devices) = 1
  /\ Len(vmap[1].value.devices[1].interfaces) = 1

\* C14: a line starting with "AT " read in Classes appends the open class, if
\* any, to the class map and leaves the parser in Types; from then on no line
\* of the file is handled, so the parser stays in Types and neither map
\* changes whatever the rest of the file holds, and the loop does not abort
\* the build: the build can only still stop when a map that already held two
\* entries of one id is written.
C14_TypesIsTerminal ==
  [][/\ (ReadsALine /\ parser_state.tag = "Classes" /\ StartsTypes(LineRead)) =>
          /\ parser_state' = Types
          /\ pc' = "emit_vendors"
          /\ vmap' = vmap
          /\ IF IsNone(parser_state.cur) THEN cmap' = cmap
             ELSE /\ Len(cmap') = Len(cmap) + 1
                  /\ SubSeq(cmap', 1, Len(cmap)) = cmap
                  /\ cmap'[Len(cmap')].key = Unwrap(parser_state.cur).id
                  /\ cmap'[Len(cmap')].value.id = Unwrap(parser_state.cur).id
                  /\ cmap'[Len(cmap')].value.name = Unwrap(parser_state.cur).name
                  /\ IdsAndNames(cmap'[Len(cmap')].value.sub_classes)
                       = IdsAndNames(Unwrap(parser_state.cur).sub_classes)
                  /\ GrandChildren(cmap'[Len(cmap')].value.sub_classes, "protocols")
                       = GrandChildren(Unwrap(parser_state.cur).sub_classes, "protocols")
     /\ parser_state.tag = "Types" =>
          /\ pc # "loop"
          /\ parser_state' = parser_state
          /\ vmap' = vmap
          /\ cmap' = cmap
          /\ nread' = nread
          /\ input' = input
          /\ pc' = "panic" =>
               \/ pc = "emit_vendors" /\ HasDuplicateKey(vmap)
               \/ pc = "emit_classes" /\ HasDuplicateKey(cmap)]_vars

\* C14 witness: the marker was read in Classes with a class with a subclass
\* open, and the build went on to completion.
C14_Witness ==
  /\ pc = "done"
  /\ parser_state = Types
  /\ StartsTypes(input[Len(input)])
  /\ \E j \in 1..(Len(input) - 1) : StartsClasses(input[j])
  /\ Len(cmap) = 1
  /\ Len(cmap[1].value.sub_classes) = 1

\* the line is handled as an InterfaceLine by the Vendors arm
IsInterfaceShape(line) ==
  IsNone(vendor(line)) /\ IsNone(device(line)) /\ IsSome(interface(line))

\* the line is handled as a ProtocolLine by the Classes arm
IsProtocolShape(line) ==
  IsNone(class(line)) /\ IsNone(sub_class(line)) /\ IsSome(protocol(line))

\* children is the sequence was with the grandchild gc appended to the
\* grandchildren of the first child whose id is last, and nothing else changed
AppendedUnder(was, children, field, last, gc) ==
  \E k \in 1..Len(was) :
    /\ was[k].id = last
    /\ \A j \in 1..(k - 1) : was[j].id # last
    /\ children = [was EXCEPT ![k][field] = Append(@, gc)]

\* C15: an InterfaceLine read while a vendor is open aborts the build when the
\* vendor has no device whose id is the last device id, and is otherwise
\* appended to the interfaces of that device; a ProtocolLine read while a
\* class is open aborts the build when the class has no subclass whose id is
\* the last subclass id, and is otherwise appended to the protocols of that
\* subclass.
C15_ChildOfMissingParentAborts ==
  [][ReadsALine =>
       /\ (/\ parser_state.tag = "Vendors" /\ IsSome(parser_state.cur)
           /\ IsInterfaceShape(LineRead)) =>
            LET v == Unwrap(parser_state.cur)
                i == [id |-> Unwrap(interface(LineRead)).id,
                      name |-> Unwrap(interface(LineRead)).rest]
            IN  IF \A k \in 1..Len(v.devices) : v.devices[k].id # parser_state.last
                THEN pc' = "panic"
                ELSE /\ pc' = "loop"
                     /\ vmap' = vmap /\ cmap' = cmap
                     /\ parser_state'.tag = "Vendors"
                     /\ parser_state'.last = parser_state.last
                     /\ IsSome(parser_state'.cur)
                     /\ Unwrap(parser_state'.cur).id = v.id
                     /\ Unwrap(parser_state'.cur).name = v.name
                     /\ AppendedUnder(v.devices, Unwrap(parser_state'.cur).devices,
                                      "interfaces", parser_state.last, i)
       /\ (/\ parser_state.tag = "Classes" /\ IsSome(parser_state.cur)
           /\ IsProtocolShape(LineRead)) =>
            LET c == Unwrap(parser_state.cur)
                p == [id |-> Unwrap(protocol(LineRead)).id,
                      name |-> Unwrap(protocol(LineRead)).rest]
            IN  IF \A k \in 1..Len(c.sub_classes) : c.sub_classes[k].id # parser_state.last
                THEN pc' = "panic"
                ELSE /\ pc' = "loop"
                     /\ vmap' = vmap /\ cmap' = cmap
                     /\ parser_state'.tag = "Classes"
                     /\ parser_state'.last = parser_state.last
                     /\ IsSome(parser_state'.cur)
                     /\ Unwrap(parser_state'.cur).id = c.id
                     /\ Unwrap(parser_state'.cur).name = c.name
                     /\ AppendedUnder(c.sub_classes, Unwrap(parser_state'.cur).sub_classes,
                                      "protocols", parser_state.last, p)]_vars

\* C15 witness: an InterfaceLine directly after the VendorLine of a second
\* vendor, with the last device id left by the first vendor's device, has
\* aborted the build.
C15_Witness ==
  /\ pc = "panic"
  /\ Len(input) = 4
  /\ IsSome(vendor(input[1]))
  /\ IsSome(device(input[2]))
  /\ IsSome(vendor(input[3]))
  /\ IsInterfaceShape(input[4])
  /\ parser_state.tag = "Vendors"
  /\ parser_state.last = Unwrap(device(input[2])).id
  /\ parser_state.last # 0
  /\ IsSome(parser_state.cur)
  /\ Unwrap(parser_state.cur).devices = <<>>

\* a line of the vendor section: a VendorLine, a DeviceLine or an InterfaceLine
IsVendorSectionShape(line) ==
  IsSome(vendor(line)) \/ IsSome(device(line)) \/ IsSome(interface(line))

\* C16 as stated: a VendorLine, DeviceLine or InterfaceLine read after the
\* parser has entered Classes either aborts the build or changes the class
\* forest (the open class or the class map); it is never dropped.
C16_OutOfOrderNeverDiscarded ==
  [][(ReadsALine /\ parser_state.tag = "Classes" /\ IsVendorSectionShape(LineRead)) =>
       \/ pc' = "panic"
       \/ <<parser_state.cur, cmap>>' # <<parser_state.cur, cmap>>]_vars

\* C16, amended: read in Classes while a class is open, an InterfaceLine is
\* taken for a ProtocolLine, so it is appended to the protocols of the
\* subclass with the last subclass id or, if the open class has none, aborts
\* the build; a VendorLine or a DeviceLine is silently discarded: the parser
\* state and both maps are unchanged and the build goes on.
C16_OutOfOrderInClasses ==
  [][(ReadsALine /\ parser_state.tag = "Classes" /\ IsSome(parser_state.cur)) =>
       /\ IsSome(interface(LineRead)) =>
            \/ /\ pc' = "panic"
               /\ \A k \in 1..Len(Unwrap(parser_state.cur).sub_classes) :
                    Unwrap(parser_state.cur).sub_classes[k].id # parser_state.last
            \/ /\ pc' = "loop"
               /\ vmap' = vmap /\ cmap' = cmap
               /\ parser_state'.tag = "Classes"
               /\ IsSome(parser_state'.cur)
               /\ AppendedUnder(Unwrap(parser_state.cur).sub_classes,
                                Unwrap(parser_state'.cur).sub_classes,
                                "protocols", parser_state.last,
                                [id |-> Unwrap(interface(LineRead)).id,
                                 name |-> Unwrap(interface(LineRead)).rest])
       /\ (IsSome(vendor(LineRead)) \/ IsSome(device(LineRead))) =>
            /\ pc' = "loop"
            /\ parser_state' = parser_state
            /\ vmap' = vmap
            /\ cmap' = cmap]_vars

\* C16 witness: a DeviceLine read right after a ClassHeaderLine and its
\* SubClassLine left the open class as the two lines before it made it, and
\* the build goes on.
C16_Witness ==
  /\ pc = "loop"
  /\ Len(input) = 3
  /\ IsSome(class(input[1]))
  /\ IsSome(sub_class(input[2]))
  /\ IsSome(device(input[3]))
  /\ parser_state.tag = "Classes"
  /\ IsSome(parser_state.cur)
  /\ Len(Unwrap(parser_state.cur).sub_classes) = 1
  /\ Unwrap(parser_state.cur).sub_classes[1].protocols = <<>>
  /\ vmap = <<>>
  /\ cmap = <<>>

\* a class of the build (CgClass) read as a vendor of the build (CgVendor)
CgClassAsCgVendor(c) ==
  [id |-> c.id, name |-> c.name,
   devices |-> [k \in 1..Len(c.sub_classes) |->
                  [id |-> c.sub_classes[k].id, name |-> c.sub_classes[k].name,
                   interfaces |-> c.sub_classes[k].protocols]]]

\* a Class of the catalog read as a Vendor: class_id in place of vendor_id
ClassAsVendor(c) ==
  [id |-> c.id, name |-> c.name,
   devices |-> [k \in 1..Len(c.sub_classes) |->
                  [vendor_id |-> c.sub_classes[k].class_id,
                   id |-> c.sub_classes[k].id, name |-> c.sub_classes[k].name,
                   interfaces |-> c.sub_classes[k].protocols]]]

ClassMapAsVendorMap(map) ==
  [i \in 1..Len(map) |-> [key |-> map[i].key, value |-> ClassAsVendor(map[i].value)]]

\* C17: for every sequence of ClassHeaderLines, SubClassLines and
\* ProtocolLines that begins with a ClassHeaderLine, the build that reads it
\* and the build that reads the VendorLines, DeviceLines and InterfaceLines of
\* the same ids and names go the same way: one aborts exactly when the other
\* does, line by line and when the maps are written, and the open class, the
\* last subclass id, the pending class entries and the class map written are
\* the open vendor, the last device id, the pending vendor entries and the
\* vendor map written of the other, with class_id in place of vendor_id.
C17_ClassSectionMirrorsVendorSection ==
  second.pos > 0 =>
    /\ second.pos = Len(input)
    /\ vmap = <<>> /\ second.cmap = <<>>
    /\ second.parser_state.tag = "Vendors"
    /\ parser_state.tag = "Classes"
    /\ parser_state.last = second.parser_state.last
    /\ IsSome(parser_state.cur) = IsSome(second.parser_state.cur)
    /\ IsSome(parser_state.cur) =>
         CgClassAsCgVendor(Unwrap(parser_state.cur)) = Unwrap(second.parser_state.cur)
    /\ ClassMapAsVendorMap(cmap) = second.vmap
    /\ (pc = "panic" /\ output = <<>>) => second.pc = "panic"
    /\ (pc = "panic" /\ output # <<>>) =>
         /\ second.pc \in {"loop", "emit_vendors", "panic"}
         /\ HasDuplicateKey(second.vmap)
    /\ second.pc = "panic" => pc = "panic"
    /\ pc = "done" => ~HasDuplicateKey(second.vmap)
    /\ second.pc \in {"emit_classes", "done"} => pc = "done"
    /\ second.pc \in {"emit_classes", "done"} =>
         /\ Len(output) = 2 /\ output[1] = <<>>
         /\ {ClassMapAsVendorMap(output[2])[i] : i \in 1..Len(output[2])}
              = {second.output[1][i] : i \in 1..Len(second.output[1])}
         /\ Len(output[2]) = Len(second.output[1])

\* both builds were aborted by a ProtocolLine and its mirror that came right
\* after the ClassHeaderLine and its mirror
C17_BothAborted ==
  /\ pc = "panic"
  /\ second.pc = "panic"
  /\ Len(input) = 2
  /\ IsSome(protocol(input[2]))

\* C17 witness: both builds completed on a class section whose first class,
\* with a subclass with a protocol, was flushed by a second ClassHeaderLine.
C17_Witness ==
  /\ pc = "done"
  /\ second.pc = "done"
  /\ Len(input) = 4
  /\ Len(output[2]) = 1
  /\ Len(output[2][1].value.sub_classes) = 1
  /\ Len(output[2][1].value.sub_classes[1].protocols) = 1
  /\ Len(second.output[1]) = 1
  /\ Len(second.output[1][1].value.devices[1].interfaces) = 1

\* a is b with some of its elements left out
RECURSIVE IsSubsequence(_, _)
IsSubsequence(a, b) ==
  IF a = <<>> THEN TRUE
  ELSE IF b = <<>> THEN FALSE
  ELSE IF Head(a) = Head(b) THEN IsSubsequence(Tail(a), Tail(b))
  ELSE IsSubsequence(a, Tail(b))

\* the ids and names of the lines of the registry that the line parser P
\* matches, in the order of the lines
Introduced(P(_)) ==
  LET sel == SelectSeq(input, LAMBDA l : IsSome(P(l))) IN
  [k \in 1..Len(sel) |-> [id |-> Unwrap(P(sel[k])).id, name |-> Unwrap(P(sel[k])).rest]]

\* the children of a parent, and the children of each of them, are in the
\* order of the lines of the registry
InRegistryOrder(parent, field, P(_), subfield, Q(_)) ==
  /\ IsSubsequence(IdsAndNames(parent[field]), Introduced(P))
  /\ \A k \in 1..Len(parent[field]) :
       IsSubsequence(IdsAndNames(parent[field][k][subfield]), Introduced(Q))

\* the vendors and the classes of the build: flushed, open, or written
VendorsSoFar ==
  {vmap[i].value : i \in 1..Len(vmap)}
    \cup (IF parser_state.tag = "Vendors" /\ IsSome(parser_state.cur)
          THEN {Unwrap(parser_state.cur)} ELSE {})
    \cup (IF Len(output) >= 1 THEN {output[1][i].value : i \in 1..Len(output[1])} ELSE {})

ClassesSoFar ==
  {cmap[i].value : i \in 1..Len(cmap)}
    \cup (IF parser_state.tag = "Classes" /\ IsSome(parser_state.cur)
          THEN {Unwrap(parser_state.cur)} ELSE {})
    \cup (IF Len(output) >= 2 THEN {output[2][i].value : i \in 1..Len(output[2])} ELSE {})

\* C18: the devices of each vendor, the interfaces of each device, the
\* subclasses of each class and the protocols of each subclass are in the
\* relative order of the lines of the registry that introduced them, while
\* the build runs and in the catalog it writes.
C18_NestedOrderIsRegistryOrder ==
  /\ \A v \in VendorsSoFar : InRegistryOrder(v, "devices", device, "interfaces", interface)
  /\ \A c \in ClassesSoFar : InRegistryOrder(c, "sub_classes", sub_class, "protocols", protocol)

\* C18 witness: the catalog was written with a vendor with two devices of
\* different ids.
C18_Witness ==
  /\ pc = "done"
  /\ \E i \in 1..Len(output[1]) :
       /\ Len(output[1][i].value.devices) = 2
       /\ output[1][i].value.devices[1].id # output[1][i].value.devices[2].id

\* a Blank or a Comment line
IsBlankOrComment(line) == line = <<>> \/ (Len(line) > 0 /\ line[1] = "#")

\* C19: reading an empty line or a line whose first character is '#' leaves
\* the section, the open parent, the last child id, both maps and the file
\* written as they were, and the build goes on to the next line, in every
\* parser state, Vendors with no vendor open included.
C19_BlankAndCommentChangeNothing ==
  [][(ReadsALine /\ IsBlankOrComment(LineRead)) =>
       /\ parser_state' = parser_state
       /\ vmap' = vmap
       /\ cmap' = cmap
       /\ output' = output
       /\ pc' = "loop"]_vars

\* C19 witness: an empty line and a comment were read before any vendor was
\* open, and the build goes on with nothing changed.
C19_Witness ==
  /\ pc = "loop"
  /\ Len(input) = 2
  /\ input[1] = <<>>
  /\ starts_with(input[2], <<"#">>)
  /\ parser_state = Vendors(None, 0)
  /\ vmap = <<>>
  /\ cmap = <<>>

\* no two children have the same id
UniqueIds(children) ==
  \A j, k \in 1..Len(children) : children[j].id = children[k].id => j = k

\* the index of the last line read so far that the line parser P matches, 0
\* when there is none
LastLineOf(P(_)) ==
  LET at == {n \in 1..Len(input) : IsSome(P(input[n]))} IN
  IF at = {} THEN 0 ELSE CHOOSE n \in at : \A m \in at : m <= n

\* the child pushed last is the one of the most recent line of its shape,
\* which came after the line that opened the parent; the grandchild gc is
\* appended to it and to no other child
AppendedToMostRecent(was, children, field, gc, P(_), Q(_)) ==
  /\ Len(was) > 0
  /\ LastLineOf(Q) > LastLineOf(P)
  /\ was[Len(was)].id = Unwrap(Q(input[LastLineOf(Q)])).id
  /\ was[Len(was)].name = Unwrap(Q(input[LastLineOf(Q)])).rest
  /\ children = [was EXCEPT ![Len(was)][field] = Append(@, gc)]

\* C20: an InterfaceLine read while the open vendor has devices of different
\* ids is appended to the device of the most recent DeviceLine, which is a
\* line of the open vendor, and to no other device, and the vendors already
\* flushed are left alone; it aborts the build only when the open vendor has
\* no device, whatever last device id an earlier vendor left. The same holds
\* for a ProtocolLine and the subclasses of the open class.
C20_ChildGoesToMostRecentParent ==
  [][ReadsALine =>
       /\ (/\ parser_state.tag = "Vendors" /\ IsSome(parser_state.cur)
           /\ IsInterfaceShape(LineRead)
           /\ UniqueIds(Unwrap(parser_state.cur).devices)) =>
            IF pc' = "panic" THEN Unwrap(parser_state.cur).devices = <<>>
            ELSE /\ vmap' = vmap
                 /\ parser_state'.tag = "Vendors" /\ IsSome(parser_state'.cur)
                 /\ AppendedToMostRecent(Unwrap(parser_state.cur).devices,
                                         Unwrap(parser_state'.cur).devices, "interfaces",
                                         [id |-> Unwrap(interface(LineRead)).id,
                                          name |-> Unwrap(interface(LineRead)).rest],
                                         vendor, device)
       /\ (/\ parser_state.tag = "Classes" /\ IsSome(parser_state.cur)
           /\ IsProtocolShape(LineRead)
           /\ UniqueIds(Unwrap(parser_state.cur).sub_classes)) =>
            IF pc' = "panic" THEN Unwrap(parser_state.cur).sub_classes = <<>>
            ELSE /\ cmap' = cmap
                 /\ parser_state'.tag = "Classes" /\ IsSome(parser_state'.cur)
                 /\ AppendedToMostRecent(Unwrap(parser_state.cur).sub_classes,
                                         Unwrap(parser_state'.cur).sub_classes, "protocols",
                                         [id |-> Unwrap(protocol(LineRead)).id,
                                          name |-> Unwrap(protocol(LineRead)).rest],
                                         class, sub_class)]_vars

\* C20 witness: an InterfaceLine read after two DeviceLines of different ids
\* of the open vendor went to the second device.
C20_Witness ==
  /\ pc = "loop"
  /\ Len(input) = 4
  /\ IsInterfaceShape(input[4])
  /\ parser_state.tag = "Vendors"
  /\ IsSome(parser_state.cur)
  /\ Len(Unwrap(parser_state.cur).devices) = 2
  /\ Unwrap(parser_state.cur).devices[1].id # Unwrap(parser_state.cur).devices[2].id
  /\ Unwrap(parser_state.cur).devices[1].interfaces = <<>>
  /\ Len(Unwrap(parser_state.cur).devices[2].interfaces) = 1

\* C21: as long as the build has not been aborted, a parser in Classes has a
\* class open, and a parser in Vendors that has read a VendorLine has a vendor
\* open; hence no SubClassLine or ProtocolLine is read in Classes with no
\* class open. (Classes with no class open is only ever the state the build
\* is aborted in.)
C21_ParentStaysOpen ==
  /\ [](pc # "panic" =>
          /\ parser_state.tag = "Classes" => IsSome(parser_state.cur)
          /\ (/\ parser_state.tag = "Vendors"
              /\ \E i \in 1..Len(input) : IsSome(vendor(input[i])))
               => IsSome(parser_state.cur))
  /\ [][(ReadsALine /\ (IsSome(sub_class(LineRead)) \/ IsSome(protocol(LineRead))))
          => ~(parser_state.tag = "Classes" /\ IsNone(parser_state.cur))]_vars

\* C21 witness: after a vendor was flushed by a ClassHeaderLine and a class by
\* a second ClassHeaderLine, a SubClassLine met the class left open.
C21_Witness ==
  /\ pc = "loop"
  /\ Len(input) = 4
  /\ IsSome(vendor(input[1]))
  /\ IsSome(class(input[2]))
  /\ IsSome(class(input[3]))
  /\ IsSome(sub_class(input[4]))
  /\ parser_state.tag = "Classes"
  /\ IsSome(parser_state.cur)
  /\ Len(Unwrap(parser_state.cur).sub_classes) = 1
  /\ Len(vmap) = 1
  /\ Len(cmap) = 1

\* the build was aborted in Classes with no class open, by a line that starts
\* with "C " and is no ClassHeaderLine
C21_AbortedWithNoClassOpen ==
  /\ pc = "panic"
  /\ parser_state.tag = "Classes"
  /\ IsNone(parser_state.cur)

====
